---------------------------- MODULE Spec2Model ----------------------------
(***************************************************************************)
(* Model of the WatchExchangeBot stream monitor (src/src/wemb/monitor.py), *)
(* its persisted tables (src/src/wemb/models.py) and the administrative    *)
(* commands that share the criteria tables (src/src/wemb/bot.py).          *)
(*                                                                         *)
(* A step of a monitor runs from one await of the coroutine to the next,   *)
(* which is the granularity at which asyncio interleaves tasks.  Text is a *)
(* sequence of one-character strings.                                      *)
(***************************************************************************)
EXTENDS Integers, Sequences, FiniteSets, TLC

(***************************************************************************)
(* Bounds of the model.                                                    *)
(***************************************************************************)
MaxId == 2          \* largest submission_criterion.id the store hands out
MaxClock == 1       \* datetime.now ranges over 0..MaxClock

Monitors == {"m1", "m2"}    \* monitor instances sharing the two stores
Primary == "m1"             \* the instance that runs alone in Spec

Dates == 0..MaxClock        \* the values datetime.now can return

MaxKeywords == 2    \* longest keyword list given to the constructor

MaxReady == 2       \* on_ready events the chat connection dispatches
MaxSignals == 2     \* SIGINT/SIGTERM signals the process receives

(***************************************************************************)
(* The tasks of the event loop of run_bot.                                 *)
(***************************************************************************)
BotTask == <<"bot", 1>>
MonitorTask(k) == <<"monitor", k>>
ReadyTask(i) == <<"ready", i>>
ShutdownTask(j) == <<"shutdown", j>>

TaskIds ==
    {BotTask} \cup {MonitorTask(k) : k \in 1..MaxReady}
              \cup {ReadyTask(i) : i \in 1..MaxReady}
              \cup {ShutdownTask(j) : j \in 1..MaxSignals}

(***************************************************************************)
(* Text helpers: str.lower, the `in` operator on strings, re.match(^\d+)   *)
(* and int().                                                              *)
(***************************************************************************)
LowerChar(ch) ==
    CASE ch = "W" -> "w"
      [] ch = "T" -> "t"
      [] ch = "S" -> "s"
      [] ch = "B" -> "b"
      [] ch = "A" -> "a"
      [] OTHER -> ch

lower(s) == [i \in 1..Len(s) |-> LowerChar(s[i])]

Contains(sub, s) ==
    \E i \in 0..(Len(s) - Len(sub)) : SubSeq(s, i + 1, i + Len(sub)) = sub

Digits == {"0", "1", "2", "3", "4", "5", "6", "7", "8", "9"}

DigitVal(ch) ==
    CASE ch = "0" -> 0 [] ch = "1" -> 1 [] ch = "2" -> 2 [] ch = "3" -> 3
      [] ch = "4" -> 4 [] ch = "5" -> 5 [] ch = "6" -> 6 [] ch = "7" -> 7
      [] ch = "8" -> 8 [] ch = "9" -> 9

\* RE_TRANSACTIONS.match(text)[0]: the leading run of decimal digits; the
\* empty sequence stands for "no match" (the pattern needs one digit).
RE_TRANSACTIONS(text) ==
    LET n == CHOOSE k \in 0..Len(text) :
                 /\ \A i \in 1..k : text[i] \in Digits
                 /\ (k = Len(text) \/ text[k + 1] \notin Digits)
    IN  SubSeq(text, 1, n)

RECURSIVE int(_)
int(ds) ==
    IF ds = <<>> THEN 0
    ELSE 10 * int(SubSeq(ds, 1, Len(ds) - 1)) + DigitVal(ds[Len(ds)])

(***************************************************************************)
(* SubmissionType and the submissions the feed can produce.  An optional   *)
(* text (author_flair_text) is <<>> for None and <<text>> otherwise.       *)
(***************************************************************************)
SubmissionType == {"WTB", "WTS"}

TypeText(t) == IF t = "WTB" THEN <<"W", "T", "B">> ELSE <<"W", "T", "S">>

formatted_value(t) == <<"[">> \o lower(TypeText(t)) \o <<"]">>

None == <<>>

Submissions ==
    { [id |-> "p1",
       title |-> <<"[", "W", "T", "S", "]", "A">>,
       author_flair_text |-> << <<"7">> >>],
      [id |-> "p2",
       title |-> <<"[", "w", "t", "b", "]", "b">>,
       author_flair_text |-> << <<"3", "x">> >>] }

PostIds == {s.id : s \in Submissions}

\* The order in which a stream yields the submissions: oldest first.
StreamOrder == <<"p1", "p2">>

\* Submissions whose flair has no leading number, or is missing.
PassSubmissions ==
    { [id |-> "p3",
       title |-> <<"[", "W", "T", "S", "]", "A">>,
       author_flair_text |-> << <<"x">> >>],
      [id |-> "p4",
       title |-> <<"[", "W", "T", "S", "]", "A">>,
       author_flair_text |-> None] }

PostOf(p) == CHOOSE s \in Submissions \cup PassSubmissions : s.id = p

(***************************************************************************)
(* The inputs of the `searches add` command.                               *)
(***************************************************************************)
AddInputs ==
    { [submission_type |-> "WTS", keywords |-> << <<"a">> >>,
       all_required |-> TRUE, min_transactions |-> 5],
      [submission_type |-> "WTB", keywords |-> << <<"a">>, <<"b">> >>,
       all_required |-> FALSE, min_transactions |-> 1] }

(***************************************************************************)
(* The arguments the functions are applied to in SpecMatch: constructor    *)
(* arguments, and submissions (title, author_flair_text).                  *)
(***************************************************************************)
KeywordTexts == { <<>>, <<"a">>, <<"B">> }

KeywordLists == UNION {[1..n -> KeywordTexts] : n \in 0..MaxKeywords}

MinValues == {-1, 0, 1, 5}

ConstructorInputs ==
    [submission_type : SubmissionType, keywords : KeywordLists,
     all_required : BOOLEAN, min_transactions : MinValues]

TestTitles ==
    { <<>>,
      <<"[", "W", "T", "S", "]">>,
      <<"[", "w", "t", "s", "]", "A">>,
      <<"b", "[", "W", "t", "s", "]", "a">>,
      <<"[", "W", "T", "B", "]", "A", "b">>,
      <<"W", "T", "S", "a", "b">>,
      <<"[", "w", "t", "b", "]">> }

TestFlairs ==
    { None, << <<>> >>, << <<"x", "7">> >>, << <<"0">> >>, << <<"4">> >>,
      << <<"5">> >>, << <<"1", "0">> >>, << <<"5", "x">> >> }

TestSubmissions == [title : TestTitles, author_flair_text : TestFlairs]

VARIABLES
    processed_submission,   \* table: rows [id, date_processed]
    submission_criterion,   \* table: rows [id, submission_type, min_transactions, all_required]
    keyword,                \* table: rows [criterion_id, ord, content]
    pc,                     \* per monitor: the await it is suspended at
    seen,                   \* per monitor: ids the current stream has yielded
    submission,             \* per monitor: id of the submission in hand
    criteria,               \* per monitor: the criteria list of the pass
    idx,                    \* per monitor: position in the criteria loop
    called,                 \* per monitor: criterion ids given to callback in this pass
    cancelled,              \* per monitor: the task was cancelled
    opened,                 \* per monitor: a connection was opened since the start
    connections,            \* per monitor: Reddit clients entered and not closed
    waits,                  \* per monitor: sleeps finished since the last opening
    dupAtCheck,             \* per monitor: the id was stored when the pass checked it
    session,                \* per monitor: the `async with DB_SESSION()` block the
                            \* task is suspended in: "dedup", "criteria", "commit"
                            \* or "none"
    lastCriteria,           \* per monitor: <<ids>> of the list the local `criteria`
                            \* held when the previous pass of this stream ended,
                            \* None before the first such pass
    notifiedPairs,          \* history: <<criterion id, post id>> given to callback
    evaluatedPosts,         \* history: post ids whose criteria were evaluated
    repeats,                \* history: "notify" once a pair was given to callback
                            \* twice, "evaluate" once a post was evaluated in two
                            \* passes (each set above is emptied from then on)
    failedPairs,            \* history, per monitor: the pairs given to callback
                            \* in a pass whose callback raised
    late,                   \* history: <<criterion id, post id>> where the
                            \* criterion was added when the post's id was stored
    log,                    \* what the last step reported: [kind, m, arg]
    kwargs,                 \* SpecMatch: the arguments given to the constructor
    constructed,            \* SpecMatch: what the constructor call gave
    inSubmission,           \* SpecMatch: the submission the checks are applied to
    out,                    \* SpecMatch: the last check applied and its result
    task,                   \* SpecBot, per task of the event loop: "none" (not
                            \* created), "running", "cancelling" (cancel() was
                            \* called and the task has not finished) or "done"
    awaiting,               \* SpecBot, per task: the await it is suspended at
    gathered,               \* SpecBot, per shutdown task: the tasks it awaits
    loop,                   \* SpecBot: the event loop, "running" or "stopped"
    cog,                    \* SpecBot: the cog Searches is loaded
    started                 \* SpecBot: create_task calls made for the monitor

storeVars == <<processed_submission, submission_criterion, keyword>>
monVars == <<pc, seen, submission, criteria, idx, called, cancelled, opened,
             connections, waits, dupAtCheck, session, lastCriteria>>
histVars == <<notifiedPairs, evaluatedPosts, repeats, failedPairs, late>>
fnVars == <<kwargs, constructed, inSubmission, out>>
botVars == <<task, awaiting, gathered, loop, cog, started>>
vars == <<storeVars, monVars, histVars, log, fnVars, botVars>>

\* The report of a step: the LOGGER line of a monitor (the response of an
\* administrative command) that tells what the step did, for the steps the
\* properties below are about, and Quiet for the others.
Report(kind, m, arg) == [kind |-> kind, m |-> m, arg |-> arg]
Quiet == Report("none", "none", "none")


(***************************************************************************)
(* models.py: SubmissionCriterion.check_title and monitor.check_criteria.  *)
(* A criterion object is a row of submission_criterion together with the   *)
(* contents of its keyword rows (the relationship `keywords`).             *)
(***************************************************************************)
\* Faulty variant: the keywords are compared as stored, not lowercased.
check_title_CaseSensitive(criterion, title) ==
    LET t == lower(title)
        ks == criterion.keywords
    IN  IF ~Contains(formatted_value(criterion.submission_type), t) THEN FALSE
        ELSE IF criterion.all_required
             THEN \A i \in 1..Len(ks) : Contains(ks[i], t)
             ELSE \E i \in 1..Len(ks) : Contains(ks[i], t)

\* Faulty variant: all_required is not consulted, every keyword is required.
check_title_AlwaysAll(criterion, title) ==
    LET t == lower(title)
        ks == criterion.keywords
    IN  IF ~Contains(formatted_value(criterion.submission_type), t) THEN FALSE
        ELSE \A i \in 1..Len(ks) : Contains(lower(ks[i]), t)

check_title(criterion, title) ==
    LET t == lower(title)
        ks == criterion.keywords
    IN  IF ~Contains(formatted_value(criterion.submission_type), t) THEN FALSE
        ELSE IF criterion.all_required
             THEN \A i \in 1..Len(ks) : Contains(lower(ks[i]), t)
             ELSE \E i \in 1..Len(ks) : Contains(lower(ks[i]), t)

\* re.match(None) and None[0] both raise the TypeError the function catches.
FlairTypeError(flair) ==
    \/ flair = None
    \/ RE_TRANSACTIONS(flair[1]) = <<>>

\* Faulty variant: a flair without a number counts as zero transactions.
check_criteria_NoneIsZero(criterion, post) ==
    IF ~check_title(criterion, post.title) THEN FALSE
    ELSE IF FlairTypeError(post.author_flair_text)
         THEN 0 >= criterion.min_transactions
    ELSE IF int(RE_TRANSACTIONS(post.author_flair_text[1])) < criterion.min_transactions
         THEN FALSE
    ELSE TRUE

\* Faulty variant: the comparison is <= and a count equal to the minimum fails.
check_criteria_Strict(criterion, post) ==
    IF ~check_title(criterion, post.title) THEN FALSE
    ELSE IF FlairTypeError(post.author_flair_text) THEN FALSE
    ELSE IF int(RE_TRANSACTIONS(post.author_flair_text[1])) <= criterion.min_transactions
         THEN FALSE
    ELSE TRUE

check_criteria(criterion, post) ==
    IF ~check_title(criterion, post.title) THEN FALSE
    ELSE IF FlairTypeError(post.author_flair_text) THEN FALSE
    ELSE IF int(RE_TRANSACTIONS(post.author_flair_text[1])) < criterion.min_transactions
         THEN FALSE
    ELSE TRUE

(***************************************************************************)
(* The Dedup Store: table processed_submission with primary key id.        *)
(***************************************************************************)
\* Faulty variant: the lookup never finds the row.
has_processed_Never(table, id) == FALSE

has_processed(table, id) == \E r \in table : r.id = id

\* session.add(ProcessedSubmission(id=...)); session.commit(): the primary
\* key rejects a second row with the same id (IntegrityError) and the row's
\* date_processed defaults to datetime.now.
IntegrityError(table, id) == \E r \in table : r.id = id

\* Faulty variant: the table has no primary key on id.
InsertProcessed_NoKey(table, id, date) ==
    table \cup {[id |-> id, date_processed |-> date]}

InsertProcessed(table, id, date) ==
    IF IntegrityError(table, id) THEN table
    ELSE table \cup {[id |-> id, date_processed |-> date]}

(***************************************************************************)
(* The Criteria Store: tables submission_criterion and keyword.            *)
(***************************************************************************)
Max(S) == CHOOSE x \in S : \A y \in S : y <= x

\* The integer primary key of a new row: one more than the largest in use.
NextId(table) == IF table = {} THEN 1 ELSE Max({r.id : r \in table}) + 1

Ascending(S) ==
    CHOOSE s \in [1..Cardinality(S) -> S] :
        \A i, j \in 1..Cardinality(S) : i < j => s[i] < s[j]

\* selectinload(SubmissionCriterion.keywords): the contents of the keyword
\* rows of one criterion, in the order the rows were inserted.
KeywordsOf(kw, cid) ==
    LET rows == {k \in kw : k.criterion_id = cid}
        ords == Ascending({k.ord : k \in rows})
    IN  [i \in 1..Len(ords) |->
            (CHOOSE k \in rows : k.ord = ords[i]).content]

\* Faulty variant: .first() instead of .all(): only the criterion with the least id.
list_all_First(sc, kw) ==
    LET ids == Ascending({r.id : r \in sc})
    IN  [i \in 1..(IF sc = {} THEN 0 ELSE 1) |->
            LET r == CHOOSE x \in sc : x.id = ids[i]
            IN  [id |-> r.id,
                 submission_type |-> r.submission_type,
                 min_transactions |-> r.min_transactions,
                 all_required |-> r.all_required,
                 keywords |-> KeywordsOf(kw, r.id)]]

\* select(SubmissionCriterion).options(selectinload(keywords)).all()
list_all(sc, kw) ==
    LET ids == Ascending({r.id : r \in sc})
    IN  [i \in 1..Len(ids) |->
            LET r == CHOOSE x \in sc : x.id = ids[i]
            IN  [id |-> r.id,
                 submission_type |-> r.submission_type,
                 min_transactions |-> r.min_transactions,
                 all_required |-> r.all_required,
                 keywords |-> KeywordsOf(kw, r.id)]]

(***************************************************************************)
(* Initial state: empty tables, every monitor about to open its first      *)
(* connection (run_monitor entered, nothing awaited yet).                  *)
(***************************************************************************)
InitMonitors ==
    /\ pc = [m \in Monitors |-> "connect"]
    /\ seen = [m \in Monitors |-> {}]
    /\ submission = [m \in Monitors |-> "none"]
    /\ criteria = [m \in Monitors |-> <<>>]
    /\ idx = [m \in Monitors |-> 0]
    /\ called = [m \in Monitors |-> <<>>]
    /\ cancelled = [m \in Monitors |-> FALSE]
    /\ opened = [m \in Monitors |-> FALSE]
    /\ connections = [m \in Monitors |-> 0]
    /\ waits = [m \in Monitors |-> 0]
    /\ dupAtCheck = [m \in Monitors |-> FALSE]
    /\ session = [m \in Monitors |-> "none"]
    /\ lastCriteria = [m \in Monitors |-> None]
    /\ notifiedPairs = {}
    /\ evaluatedPosts = {}
    /\ repeats = {}
    /\ failedPairs = [m \in Monitors |-> {}]
    /\ late = {}
    /\ log = Quiet

\* No function call is under study in Spec and SpecShared.
NoCalls ==
    /\ kwargs = None
    /\ constructed = None
    /\ inSubmission = None
    /\ out = None

\* The event loop is not under study in the other specifications: the
\* monitor runs from the start and nothing is cancelled through the loop.
NoBot ==
    /\ task = [t \in TaskIds |-> "none"]
    /\ awaiting = [t \in TaskIds |-> "start"]
    /\ gathered = [t \in TaskIds |-> {}]
    /\ loop = "running"
    /\ cog = FALSE
    /\ started = 0

Init ==
    /\ processed_submission = {}
    /\ submission_criterion = {}
    /\ keyword = {}
    /\ InitMonitors
    /\ NoCalls
    /\ NoBot

(***************************************************************************)
(* The administrative commands (bot.py), which share the criteria tables.   *)
(***************************************************************************)
\* Faulty variant: the validator accepts every value.
validate_min_transactions_Any(value) == TRUE

\* @validates("min_transactions"): FALSE stands for the ValueError raised.
validate_min_transactions(value) == value >= 0

\* SubmissionCriterion(submission_type=..., keywords=..., all_required=...,
\* min_transactions=...): the object, or the ValueError of the validator.
\* The keywords are kept as given.
SubmissionCriterion(args) ==
    IF ~validate_min_transactions(args.min_transactions)
    THEN [raised |-> "ValueError", object |-> <<>>]
    ELSE [raised |-> "none",
          object |-> << [submission_type |-> args.submission_type,
                         keywords |-> args.keywords,
                         all_required |-> args.all_required,
                         min_transactions |-> args.min_transactions] >>]

\* session.add(criterion); session.commit(): the row of the criterion and
\* the rows of its keywords.
NewCriterion(cid, input) ==
    [id |-> cid,
     submission_type |-> input.submission_type,
     min_transactions |-> input.min_transactions,
     all_required |-> input.all_required]

NewKeywords(cid, input) ==
    {[criterion_id |-> cid, ord |-> i, content |-> input.keywords[i]] :
         i \in 1..Len(input.keywords)}

\* Searches.add: min_transactions is a Range[int, 1] parameter, which the
\* command framework enforces before the body runs; then the constructor;
\* then one session with the criterion and its keywords in one commit.
Add(input) ==
    LET cid == NextId(submission_criterion)
        new == SubmissionCriterion(input)
    IN  /\ cid <= MaxId
        /\ IF input.min_transactions < 1
           THEN /\ log' = Report("rejected", "admin", "Range")
                /\ UNCHANGED <<submission_criterion, keyword>>
           ELSE IF new.raised # "none"
           THEN /\ log' = Report("failed", "admin", new.raised)
                /\ UNCHANGED <<submission_criterion, keyword>>
           ELSE /\ submission_criterion' =
                       submission_criterion \cup {NewCriterion(cid, new.object[1])}
                /\ keyword' = keyword \cup NewKeywords(cid, new.object[1])
                /\ log' = Report("created", "admin", ToString(cid))
        /\ UNCHANGED <<processed_submission, monVars>>

\* Searches.list: one read of the criteria, shown in the response.
List ==
    /\ log' = Report("listed", "admin",
                     ToString(Len(list_all(submission_criterion, keyword))))
    /\ UNCHANGED <<storeVars, monVars>>

\* Faulty variant: the relationship has no delete cascade.
Delete_NoCascade(search_id) ==
    /\ IF \E r \in submission_criterion : r.id = search_id
       THEN /\ submission_criterion' =
                   {r \in submission_criterion : r.id # search_id}
            /\ log' = Report("deleted", "admin", ToString(search_id))
       ELSE /\ UNCHANGED submission_criterion
            /\ log' = Report("not_found", "admin", ToString(search_id))
    /\ UNCHANGED <<keyword, processed_submission, monVars>>

\* Faulty variant: the select has no where clause and takes the first row.
Delete_NoWhere(search_id) ==
    /\ IF submission_criterion # {}
       THEN LET first == Max({0 - r.id : r \in submission_criterion})
            IN  /\ submission_criterion' =
                       {r \in submission_criterion : r.id # 0 - first}
                /\ keyword' = {k \in keyword : k.criterion_id # 0 - first}
                /\ log' = Report("deleted", "admin", ToString(search_id))
       ELSE /\ UNCHANGED <<submission_criterion, keyword>>
            /\ log' = Report("not_found", "admin", ToString(search_id))
    /\ UNCHANGED <<processed_submission, monVars>>

\* Searches.delete: not found, or the criterion and (cascade) its keywords
\* in one commit.
Delete(search_id) ==
    /\ IF \E r \in submission_criterion : r.id = search_id
       THEN /\ submission_criterion' =
                   {r \in submission_criterion : r.id # search_id}
            /\ keyword' = {k \in keyword : k.criterion_id # search_id}
            /\ log' = Report("deleted", "admin", ToString(search_id))
       ELSE /\ UNCHANGED <<submission_criterion, keyword>>
            /\ log' = Report("not_found", "admin", ToString(search_id))
    /\ UNCHANGED <<processed_submission, monVars>>

(***************************************************************************)
(* run_monitor and process_submissions, one action per await.              *)
(***************************************************************************)
\* The task is inside the `async with Reddit(...) as reddit` block.
InWith(m) ==
    pc[m] \in {"stream", "check", "load", "keywords", "notify", "commit"}

\* An exception leaves the `async with` block, if the task is in it: the
\* exit of the block closes the client.
Close(m) ==
    connections' = [connections EXCEPT ![m] =
                        IF InWith(m) THEN connections[m] - 1 ELSE connections[m]]

\* The locals of a pass are dropped when the pass ends.
EndPass(m, to, last) ==
    /\ lastCriteria' = [lastCriteria EXCEPT ![m] = last]
    /\ pc' = [pc EXCEPT ![m] = to]
    /\ submission' = [submission EXCEPT ![m] = "none"]
    /\ criteria' = [criteria EXCEPT ![m] = <<>>]
    /\ idx' = [idx EXCEPT ![m] = 0]
    /\ called' = [called EXCEPT ![m] = <<>>]
    /\ dupAtCheck' = [dupAtCheck EXCEPT ![m] = FALSE]
    /\ session' = [session EXCEPT ![m] = "none"]

\* Faulty variant: the except clause does not sleep before the loop starts over.
Raise_NoSleep(m) ==
    /\ EndPass(m, "connect", None)
    /\ seen' = [seen EXCEPT ![m] = {}]
    /\ Close(m)
    /\ UNCHANGED <<cancelled, opened, waits>>

\* Faulty variant: the exception is handled inside the `async with` block.
Raise_KeepsConnection(m) ==
    /\ EndPass(m, "backoff", None)
    /\ seen' = [seen EXCEPT ![m] = {}]
    /\ UNCHANGED <<cancelled, opened, connections, waits>>

\* An exception other than CancelledError leaves the `async with` block,
\* which closes the client, and reaches run_monitor's broad except clause:
\* the task sleeps.
Raise(m) ==
    /\ EndPass(m, "backoff", None)
    /\ seen' = [seen EXCEPT ![m] = {}]
    /\ Close(m)
    /\ UNCHANGED <<cancelled, opened, waits>>

\* async with Reddit(...) and the start of the stream.
Connect(m) ==
    /\ pc[m] = "connect"
    /\ pc' = [pc EXCEPT ![m] = "stream"]
    /\ seen' = [seen EXCEPT ![m] = {}]
    /\ opened' = [opened EXCEPT ![m] = TRUE]
    /\ connections' = [connections EXCEPT ![m] = connections[m] + 1]
    /\ waits' = [waits EXCEPT ![m] = 0]
    /\ log' = Quiet
    /\ UNCHANGED <<storeVars, submission, criteria, idx, called, cancelled,
                   dupAtCheck, session, lastCriteria>>

\* The stream raises (a connection failure) while the task awaits a post.
FeedFail(m) ==
    /\ pc[m] = "stream"
    /\ Raise(m)
    /\ log' = Report("feed_failed", m, "stream")
    /\ UNCHANGED storeVars

\* async for submission in subreddit.stream.submissions(): a stream yields
\* each submission once, oldest first, those posted before it was opened
\* (the backfill) included.
Deliver(m, p) ==
    /\ pc[m] = "stream"
    /\ Cardinality(seen[m]) < Len(StreamOrder)
    /\ p = StreamOrder[Cardinality(seen[m]) + 1]
    /\ pc' = [pc EXCEPT ![m] = "check"]
    /\ seen' = [seen EXCEPT ![m] = seen[m] \cup {p}]
    /\ submission' = [submission EXCEPT ![m] = p]
    /\ session' = [session EXCEPT ![m] = "dedup"]
    /\ log' = Quiet
    /\ UNCHANGED <<storeVars, criteria, idx, called, cancelled, opened, connections, waits,
                   dupAtCheck, lastCriteria>>

\* Faulty variant: the skip is reported but the `continue` is missing.
DedupCheck_NoSkip(m) ==
    /\ pc[m] = "check"
    /\ pc' = [pc EXCEPT ![m] = "load"]
    /\ session' = [session EXCEPT ![m] = "criteria"]
    /\ log' = IF has_processed(processed_submission, submission[m])
              THEN Report("skipped", m, submission[m]) ELSE Quiet
    /\ dupAtCheck' = [dupAtCheck EXCEPT ![m] =
           \E r \in processed_submission : r.id = submission[m]]
    /\ UNCHANGED <<storeVars, seen, submission, criteria, idx, called,
                   cancelled, opened, connections, waits, lastCriteria>>

\* Faulty variant: the lookup is a get-or-create that stores the id it
\* did not find.
DedupCheck_GetOrCreate(m) ==
    /\ pc[m] = "check"
    /\ IF has_processed(processed_submission, submission[m])
       THEN /\ EndPass(m, "stream", lastCriteria[m])
            /\ log' = Report("skipped", m, submission[m])
            /\ UNCHANGED processed_submission
       ELSE /\ pc' = [pc EXCEPT ![m] = "load"]
            /\ session' = [session EXCEPT ![m] = "criteria"]
            /\ log' = Quiet
            /\ dupAtCheck' = [dupAtCheck EXCEPT ![m] =
                   \E r \in processed_submission : r.id = submission[m]]
            /\ \E date \in Dates :
                   processed_submission' =
                       InsertProcessed(processed_submission, submission[m], date)
            /\ UNCHANGED <<submission, criteria, idx, called, lastCriteria>>
    /\ UNCHANGED <<submission_criterion, keyword, seen, cancelled, opened, connections,
                   waits>>

\* await session.get(ProcessedSubmission, submission.id)
DedupCheck(m) ==
    /\ pc[m] = "check"
    /\ IF has_processed(processed_submission, submission[m])
       THEN /\ EndPass(m, "stream", lastCriteria[m])
            /\ log' = Report("skipped", m, submission[m])
       ELSE /\ pc' = [pc EXCEPT ![m] = "load"]
            /\ session' = [session EXCEPT ![m] = "criteria"]
            /\ log' = Quiet
            /\ dupAtCheck' = [dupAtCheck EXCEPT ![m] =
                   \E r \in processed_submission : r.id = submission[m]]
            /\ UNCHANGED <<submission, criteria, idx, called, lastCriteria>>
    /\ UNCHANGED <<storeVars, seen, cancelled, opened, connections, waits>>

\* Faulty variant: the loop breaks after the first callback.
NextMatch_Break(crit, post, from) ==
    IF from = 1 /\ \E j \in 1..Len(crit) : check_criteria(crit[j], post)
    THEN CHOOSE j \in 1..Len(crit) :
             /\ check_criteria(crit[j], post)
             /\ \A i \in 1..(j - 1) : ~check_criteria(crit[i], post)
    ELSE Len(crit) + 1

\* Faulty variant: the loop ends at the first criterion that does not match.
NextMatch_StopAtFailure(crit, post, from) ==
    IF from <= Len(crit) /\ check_criteria(crit[from], post)
    THEN from
    ELSE Len(crit) + 1

\* The criteria loop from position `from` up to its next await: the first
\* criterion that matches (callback is called) or the end of the list.
NextMatch(crit, post, from) ==
    IF \E j \in from..Len(crit) : check_criteria(crit[j], post)
    THEN CHOOSE j \in from..Len(crit) :
             /\ check_criteria(crit[j], post)
             /\ \A i \in from..(j - 1) : ~check_criteria(crit[i], post)
    ELSE Len(crit) + 1

\* Faulty variant: a pass that matched nothing goes back to the stream
\* without the commit.
RunLoop_CommitOnMatch(m, crit, from) ==
    LET j == NextMatch(crit, PostOf(submission[m]), from)
    IN  /\ idx' = [idx EXCEPT ![m] = j]
        /\ IF j <= Len(crit)
           THEN /\ pc' = [pc EXCEPT ![m] = "notify"]
                /\ called' = [called EXCEPT ![m] = Append(called[m], crit[j].id)]
                /\ session' = [session EXCEPT ![m] = "criteria"]
           ELSE /\ pc' = [pc EXCEPT ![m] =
                              IF called[m] = <<>> THEN "stream" ELSE "commit"]
                /\ session' = [session EXCEPT ![m] =
                                   IF called[m] = <<>> THEN "none" ELSE "commit"]
                /\ UNCHANGED called

\* The for loop lies inside the `async with` block of the criteria read,
\* so the task awaits callback with that session open; the block is left,
\* and the block of the commit entered, when the list is exhausted.
RunLoop(m, crit, from) ==
    LET j == NextMatch(crit, PostOf(submission[m]), from)
    IN  /\ idx' = [idx EXCEPT ![m] = j]
        /\ IF j <= Len(crit)
           THEN /\ pc' = [pc EXCEPT ![m] = "notify"]
                /\ called' = [called EXCEPT ![m] = Append(called[m], crit[j].id)]
                /\ session' = [session EXCEPT ![m] = "criteria"]
           ELSE /\ pc' = [pc EXCEPT ![m] = "commit"]
                /\ session' = [session EXCEPT ![m] = "commit"]
                /\ UNCHANGED called

\* await session.scalars(select(SubmissionCriterion)...) and the loop up to
\* the first callback.
LoadCriteria(m) ==
    /\ pc[m] = "load"
    /\ LET crit == list_all(submission_criterion, keyword)
       IN  /\ criteria' = [criteria EXCEPT ![m] = crit]
           /\ RunLoop(m, crit, 1)
    /\ log' = Quiet
    /\ UNCHANGED <<storeVars, seen, submission, cancelled, opened, connections, waits,
                   dupAtCheck, lastCriteria>>

\* Faulty variant: the loop goes on over a list read again from the table.
NotifyOk_Reread(m) ==
    /\ pc[m] = "notify"
    /\ LET crit == list_all(submission_criterion, keyword)
       IN  /\ criteria' = [criteria EXCEPT ![m] = crit]
           /\ RunLoop(m, crit, idx[m] + 1)
    /\ log' = Quiet
    /\ UNCHANGED <<storeVars, seen, submission, cancelled, opened, connections,
                   waits, dupAtCheck, lastCriteria>>

\* await callback(criterion, submission, reddit) returns: the loop goes on
\* over the list the criteria read gave.
NotifyOk(m) ==
    /\ pc[m] = "notify"
    /\ RunLoop(m, criteria[m], idx[m] + 1)
    /\ log' = Quiet
    /\ UNCHANGED <<storeVars, seen, submission, criteria, cancelled, opened, connections,
                   waits, dupAtCheck, lastCriteria>>

\* await callback(...) raises: nothing in process_submissions catches it.
NotifyFail(m) ==
    /\ pc[m] = "notify"
    /\ Raise(m)
    /\ log' = Report("notifier_failed", m, submission[m])
    /\ UNCHANGED storeVars

\* Faulty variant: the commit has no except IntegrityError clause.
Commit_Propagates(m) ==
    /\ pc[m] = "commit"
    /\ IF IntegrityError(processed_submission, submission[m])
       THEN /\ Raise(m)
            /\ log' = Report("already_in_cache", m, submission[m])
            /\ UNCHANGED storeVars
       ELSE /\ \E date \in Dates :
                   processed_submission' =
                       InsertProcessed(processed_submission, submission[m], date)
            /\ log' = Report("stored", m, submission[m])
            /\ EndPass(m, "stream",
                       << {criteria[m][i].id : i \in 1..Len(criteria[m])} >>)
            /\ UNCHANGED <<submission_criterion, keyword, seen, cancelled,
                           opened, connections, waits>>

\* session.add(ProcessedSubmission(id=submission.id)); await session.commit()
\* with its except IntegrityError clause, then back to the stream.
Commit(m) ==
    /\ pc[m] = "commit"
    /\ \E date \in Dates :
           processed_submission' =
               InsertProcessed(processed_submission, submission[m], date)
    /\ log' = IF IntegrityError(processed_submission, submission[m])
              THEN Report("already_in_cache", m, submission[m])
              ELSE Report("stored", m, submission[m])
    /\ EndPass(m, "stream",
               << {criteria[m][i].id : i \in 1..Len(criteria[m])} >>)
    /\ UNCHANGED <<submission_criterion, keyword, seen, cancelled, opened, connections,
                   waits>>

\* A persistence operation raises something else than IntegrityError (the
\* database is locked or unreachable): no clause of process_submissions
\* catches it, and a failed commit stores nothing.
PersistenceError(m) ==
    /\ pc[m] \in {"check", "load", "commit"}
    /\ Raise(m)
    /\ log' = Report("persistence_error", m, pc[m])
    /\ UNCHANGED storeVars

\* Opening the connection raises inside run_monitor's try block.
ConnectFail(m) ==
    /\ pc[m] = "connect"
    /\ pc' = [pc EXCEPT ![m] = "backoff"]
    /\ opened' = [opened EXCEPT ![m] = TRUE]
    /\ waits' = [waits EXCEPT ![m] = 0]
    /\ log' = Report("connect_failed", m, "connect")
    /\ UNCHANGED connections
    /\ UNCHANGED <<storeVars, seen, submission, criteria, idx, called,
                   cancelled, dupAtCheck, session, lastCriteria>>

\* await asyncio.sleep(10) returns and the while loop starts over.
BackoffDone(m) ==
    /\ pc[m] = "backoff"
    /\ pc' = [pc EXCEPT ![m] = "connect"]
    /\ waits' = [waits EXCEPT ![m] = waits[m] + 1]
    /\ log' = Quiet
    /\ UNCHANGED <<storeVars, seen, submission, criteria, idx, called,
                   cancelled, opened, connections, dupAtCheck, session, lastCriteria>>

\* Faulty variant: the broad except clause also takes CancelledError and retries.
Cancel_Retried(m) ==
    /\ pc[m] # "stopped"
    /\ EndPass(m, "backoff", None)
    /\ seen' = [seen EXCEPT ![m] = {}]
    /\ cancelled' = [cancelled EXCEPT ![m] = TRUE]
    /\ log' = Report("cancelled", m, pc[m])
    /\ Close(m)
    /\ UNCHANGED <<storeVars, opened, waits>>

\* The task is cancelled: CancelledError is thrown at the await the task is
\* suspended at, passes every except clause and leaves run_monitor.
Cancel(m) ==
    /\ pc[m] # "stopped"
    /\ EndPass(m, "stopped", None)
    /\ seen' = [seen EXCEPT ![m] = {}]
    /\ cancelled' = [cancelled EXCEPT ![m] = TRUE]
    /\ log' = Report("cancelled", m, pc[m])
    /\ Close(m)
    /\ UNCHANGED <<storeVars, opened, waits>>

\* Faulty variant: the cache of processed submissions lives in process memory.
Restart_LosesCache(m) ==
    /\ EndPass(m, "connect", None)
    /\ seen' = [seen EXCEPT ![m] = {}]
    /\ cancelled' = [cancelled EXCEPT ![m] = FALSE]
    /\ opened' = [opened EXCEPT ![m] = FALSE]
    /\ connections' = [connections EXCEPT ![m] = 0]
    /\ waits' = [waits EXCEPT ![m] = 0]
    /\ log' = Quiet
    /\ processed_submission' = {}
    /\ UNCHANGED <<submission_criterion, keyword>>

\* The process of a monitor is killed and started again: its memory is
\* lost, the tables are kept.
Restart(m) ==
    /\ EndPass(m, "connect", None)
    /\ seen' = [seen EXCEPT ![m] = {}]
    /\ cancelled' = [cancelled EXCEPT ![m] = FALSE]
    /\ opened' = [opened EXCEPT ![m] = FALSE]
    /\ connections' = [connections EXCEPT ![m] = 0]
    /\ waits' = [waits EXCEPT ![m] = 0]
    /\ log' = Quiet
    /\ UNCHANGED storeVars

(***************************************************************************)
(* Spec: one monitor instance and the administrative commands.  The        *)
(* history of notifications is not recorded here.                          *)
(***************************************************************************)
Next ==
    \/ \E input \in AddInputs : Add(input) /\ UNCHANGED <<histVars, fnVars, botVars>>
    \/ \E search_id \in 0..MaxId : Delete(search_id) /\ UNCHANGED <<histVars, fnVars, botVars>>
    \/ List /\ UNCHANGED <<histVars, fnVars, botVars>>
    \/ Connect(Primary) /\ UNCHANGED <<histVars, fnVars, botVars>>
    \/ ConnectFail(Primary) /\ UNCHANGED <<histVars, fnVars, botVars>>
    \/ FeedFail(Primary) /\ UNCHANGED <<histVars, fnVars, botVars>>
    \/ \E p \in PostIds : Deliver(Primary, p) /\ UNCHANGED <<histVars, fnVars, botVars>>
    \/ DedupCheck(Primary) /\ UNCHANGED <<histVars, fnVars, botVars>>
    \/ LoadCriteria(Primary) /\ UNCHANGED <<histVars, fnVars, botVars>>
    \/ NotifyOk(Primary) /\ UNCHANGED <<histVars, fnVars, botVars>>
    \/ NotifyFail(Primary) /\ UNCHANGED <<histVars, fnVars, botVars>>
    \/ Commit(Primary) /\ UNCHANGED <<histVars, fnVars, botVars>>
    \/ PersistenceError(Primary) /\ UNCHANGED <<histVars, fnVars, botVars>>
    \/ BackoffDone(Primary) /\ UNCHANGED <<histVars, fnVars, botVars>>
    \/ Cancel(Primary) /\ UNCHANGED <<histVars, fnVars, botVars>>
    \/ Restart(Primary) /\ UNCHANGED <<histVars, fnVars, botVars>>

Spec == Init /\ [][Next]_vars

(***************************************************************************)
(* SpecShared: two monitor instances share the tables, which hold the two  *)
(* criteria of AddInputs (added in that order) from the start, and the     *)
(* history of notifications and evaluations is recorded.                   *)
(***************************************************************************)
SharedInputs ==
    << CHOOSE i \in AddInputs : i.submission_type = "WTS",
       CHOOSE i \in AddInputs : i.submission_type = "WTB" >>

InitShared ==
    /\ processed_submission = {}
    /\ submission_criterion =
           {NewCriterion(n, SharedInputs[n]) : n \in 1..Len(SharedInputs)}
    /\ keyword =
           UNION {NewKeywords(n, SharedInputs[n]) : n \in 1..Len(SharedInputs)}
    /\ InitMonitors
    /\ NoCalls
    /\ NoBot

\* The history of a step: the pair given to callback (the step lengthened
\* `called`) and the post whose criteria were evaluated (the step read a
\* list that is not empty).
NotifiedNow(m) == Len(called'[m]) = Len(called[m]) + 1

PairNow(m) == <<called'[m][Len(called'[m])], submission[m]>>

EvaluatedNow(m) ==
    /\ pc[m] = "load"
    /\ pc'[m] \in {"notify", "commit"}
    /\ criteria'[m] # <<>>

\* The step is the callback of m raising: the pairs given to callback in
\* the pass it ends, the one that raised included.
FailedNow(m) ==
    IF log' = Report("notifier_failed", m, submission[m])
    THEN {<<called[m][i], submission[m]>> : i \in 1..Len(called[m])}
    ELSE {}

Track ==
    /\ repeats' = repeats
           \cup (IF \E m \in Monitors :
                        NotifiedNow(m) /\ PairNow(m) \in notifiedPairs
                 THEN {"notify"} ELSE {})
           \cup (IF \E m \in Monitors :
                        EvaluatedNow(m) /\ submission[m] \in evaluatedPosts
                 THEN {"evaluate"} ELSE {})
    /\ notifiedPairs' =
           IF "notify" \in repeats' THEN {}
           ELSE notifiedPairs \cup
                    {PairNow(m) : m \in {x \in Monitors : NotifiedNow(x)}}
    /\ evaluatedPosts' =
           IF "evaluate" \in repeats' THEN {}
           ELSE evaluatedPosts \cup
                    {submission[m] : m \in {x \in Monitors : EvaluatedNow(x)}}
    /\ failedPairs' =
           [m \in Monitors |-> failedPairs[m] \cup FailedNow(m)]
    /\ late' = late

NextShared ==
    \/ \E m \in Monitors : Connect(m) /\ Track /\ UNCHANGED <<fnVars, botVars>>
    \/ \E m \in Monitors : ConnectFail(m) /\ Track /\ UNCHANGED <<fnVars, botVars>>
    \/ \E m \in Monitors : FeedFail(m) /\ Track /\ UNCHANGED <<fnVars, botVars>>
    \/ \E m \in Monitors, p \in PostIds : Deliver(m, p) /\ Track /\ UNCHANGED <<fnVars, botVars>>
    \/ \E m \in Monitors : DedupCheck(m) /\ Track /\ UNCHANGED <<fnVars, botVars>>
    \/ \E m \in Monitors : LoadCriteria(m) /\ Track /\ UNCHANGED <<fnVars, botVars>>
    \/ \E m \in Monitors : NotifyOk(m) /\ Track /\ UNCHANGED <<fnVars, botVars>>
    \/ \E m \in Monitors : NotifyFail(m) /\ Track /\ UNCHANGED <<fnVars, botVars>>
    \/ \E m \in Monitors : Commit(m) /\ Track /\ UNCHANGED <<fnVars, botVars>>
    \/ \E m \in Monitors : PersistenceError(m) /\ Track /\ UNCHANGED <<fnVars, botVars>>
    \/ \E m \in Monitors : BackoffDone(m) /\ Track /\ UNCHANGED <<fnVars, botVars>>
    \/ \E m \in Monitors : Cancel(m) /\ Track /\ UNCHANGED <<fnVars, botVars>>
    \/ \E m \in Monitors : Restart(m) /\ Track /\ UNCHANGED <<fnVars, botVars>>

SpecShared == InitShared /\ [][NextShared]_vars

(***************************************************************************)
(* SpecMatch: the constructor, check_title and check_criteria applied to   *)
(* arguments drawn from ConstructorInputs and TestSubmissions, and         *)
(* `searches add` run with the same arguments.                             *)
(***************************************************************************)
NotCalled == [op |-> "none", value |-> FALSE]

NotConstructed == [called |-> FALSE, raised |-> "none", object |-> <<>>]

InitMatch ==
    /\ processed_submission = {}
    /\ submission_criterion = {}
    /\ keyword = {}
    /\ InitMonitors
    /\ kwargs \in ConstructorInputs
    /\ inSubmission \in TestSubmissions
    /\ constructed = NotConstructed
    /\ out = NotCalled
    /\ NoBot

Construct ==
    /\ ~constructed.called
    /\ LET new == SubmissionCriterion(kwargs)
       IN  constructed' =
               [called |-> TRUE, raised |-> new.raised, object |-> new.object]
    /\ UNCHANGED <<kwargs, inSubmission, out>>

CheckTitle ==
    /\ constructed.object # <<>>
    /\ out' = [op |-> "check_title",
               value |-> check_title(constructed.object[1], inSubmission.title)]
    /\ UNCHANGED <<kwargs, inSubmission, constructed>>

CheckCriteria ==
    /\ constructed.object # <<>>
    /\ out' = [op |-> "check_criteria",
               value |-> check_criteria(constructed.object[1], inSubmission)]
    /\ UNCHANGED <<kwargs, inSubmission, constructed>>

NextMatchSpec ==
    \/ Construct /\ UNCHANGED <<storeVars, monVars, histVars, log, botVars>>
    \/ CheckTitle /\ UNCHANGED <<storeVars, monVars, histVars, log, botVars>>
    \/ CheckCriteria /\ UNCHANGED <<storeVars, monVars, histVars, log, botVars>>
    \/ Add(kwargs) /\ UNCHANGED <<histVars, fnVars, botVars>>

SpecMatch == InitMatch /\ [][NextMatchSpec]_vars

(***************************************************************************)
(* SpecPass: one pass of one monitor instance, from the dedup check on,    *)
(* over a post of Submissions or PassSubmissions, with tables that hold a  *)
(* list of criteria added from PassInputs: for the post p1 the third input *)
(* fails on its keyword and the fourth on the minimum of transactions.     *)
(***************************************************************************)
PassInputs ==
    AddInputs \cup
    { [submission_type |-> "WTS", keywords |-> << <<"b">> >>,
       all_required |-> TRUE, min_transactions |-> 1],
      [submission_type |-> "WTS", keywords |-> << <<"a">> >>,
       all_required |-> TRUE, min_transactions |-> 9] }

PassLists == UNION {[1..n -> PassInputs] : n \in 0..MaxId}

PassPostIds == {s.id : s \in Submissions \cup PassSubmissions}

InitPass ==
    /\ processed_submission = {}
    /\ \E list \in PassLists :
          /\ submission_criterion =
                 {NewCriterion(n, list[n]) : n \in 1..Len(list)}
          /\ keyword = UNION {NewKeywords(n, list[n]) : n \in 1..Len(list)}
    /\ pc = [m \in Monitors |-> IF m = Primary THEN "check" ELSE "connect"]
    /\ \E p \in PassPostIds :
          /\ seen = [m \in Monitors |-> IF m = Primary THEN {p} ELSE {}]
          /\ submission = [m \in Monitors |-> IF m = Primary THEN p ELSE "none"]
    /\ criteria = [m \in Monitors |-> <<>>]
    /\ idx = [m \in Monitors |-> 0]
    /\ called = [m \in Monitors |-> <<>>]
    /\ cancelled = [m \in Monitors |-> FALSE]
    /\ opened = [m \in Monitors |-> m = Primary]
    /\ connections = [m \in Monitors |-> IF m = Primary THEN 1 ELSE 0]
    /\ waits = [m \in Monitors |-> 0]
    /\ dupAtCheck = [m \in Monitors |-> FALSE]
    /\ session = [m \in Monitors |-> IF m = Primary THEN "dedup" ELSE "none"]
    /\ lastCriteria = [m \in Monitors |-> None]
    /\ notifiedPairs = {}
    /\ evaluatedPosts = {}
    /\ repeats = {}
    /\ failedPairs = [m \in Monitors |-> {}]
    /\ late = {}
    /\ log = Quiet
    /\ NoCalls
    /\ NoBot

NextPass ==
    \/ DedupCheck(Primary) /\ UNCHANGED <<histVars, fnVars, botVars>>
    \/ LoadCriteria(Primary) /\ UNCHANGED <<histVars, fnVars, botVars>>
    \/ NotifyOk(Primary) /\ UNCHANGED <<histVars, fnVars, botVars>>
    \/ NotifyFail(Primary) /\ UNCHANGED <<histVars, fnVars, botVars>>
    \/ Commit(Primary) /\ UNCHANGED <<histVars, fnVars, botVars>>

SpecPass == InitPass /\ [][NextPass]_vars

(***************************************************************************)
(* SpecBot: the event loop of run_bot with the task of the chat client,    *)
(* the tasks of its on_ready handlers, the monitor task they start and the *)
(* tasks of __shutdown that the signal handler creates.  The feed yields   *)
(* no post in these runs: the monitor opens its connection, awaits the     *)
(* stream, and sleeps and opens again when the connection fails.  A step   *)
(* of the monitor is taken only by its task, and a task on which cancel()  *)
(* was called has one step left: CancelledError is raised at its await and *)
(* the task finishes.                                                      *)
(***************************************************************************)
InitBot ==
    /\ processed_submission = {}
    /\ submission_criterion = {}
    /\ keyword = {}
    /\ InitMonitors
    /\ NoCalls
    /\ task = [t \in TaskIds |-> IF t = BotTask THEN "running" ELSE "none"]
    /\ awaiting = [t \in TaskIds |-> "start"]
    /\ gathered = [t \in TaskIds |-> {}]
    /\ loop = "running"
    /\ cog = FALSE
    /\ started = 0

\* A step of the event loop that is no step of the monitor coroutine.
LoopStep(kind, arg) ==
    /\ loop = "running"
    /\ log' = Report(kind, "loop", arg)
    /\ UNCHANGED <<storeVars, monVars, histVars, fnVars>>

\* The chat client dispatches on_ready: a task runs the handler.
OnReady(i) ==
    /\ task[BotTask] = "running"
    /\ task[ReadyTask(i)] = "none"
    /\ \A k \in 1..(i - 1) : task[ReadyTask(k)] # "none"
    /\ task' = [task EXCEPT ![ReadyTask(i)] = "running"]
    /\ LoopStep("on_ready", ToString(i))
    /\ UNCHANGED <<awaiting, gathered, loop, cog, started>>

\* Faulty variant: the cog is added with override=True, which replaces a
\* loaded cog instead of raising.
AddCog_Override(i) ==
    /\ task[ReadyTask(i)] = "running"
    /\ awaiting[ReadyTask(i)] = "start"
    /\ cog' = TRUE
    /\ awaiting' = [awaiting EXCEPT ![ReadyTask(i)] = "create_task"]
    /\ LoopStep("add_cog", ToString(i))
    /\ UNCHANGED <<task, gathered, loop, started>>

\* await bot.add_cog(Searches()): a cog whose name is already loaded is
\* refused with ClientException, which ends the handler.
AddCog(i) ==
    /\ task[ReadyTask(i)] = "running"
    /\ awaiting[ReadyTask(i)] = "start"
    /\ IF cog
       THEN /\ task' = [task EXCEPT ![ReadyTask(i)] = "done"]
            /\ LoopStep("ClientException", ToString(i))
            /\ UNCHANGED <<awaiting, cog>>
       ELSE /\ cog' = TRUE
            /\ awaiting' = [awaiting EXCEPT ![ReadyTask(i)] = "create_task"]
            /\ LoopStep("add_cog", ToString(i))
            /\ UNCHANGED task
    /\ UNCHANGED <<gathered, loop, started>>

\* MONITOR_COROUTINE is not None: create_task(MONITOR_COROUTINE), and the
\* handler returns.
StartMonitor(i) ==
    /\ task[ReadyTask(i)] = "running"
    /\ awaiting[ReadyTask(i)] = "create_task"
    /\ started < MaxReady
    /\ started' = started + 1
    /\ task' = [task EXCEPT ![ReadyTask(i)] = "done",
                            ![MonitorTask(started + 1)] = "running"]
    /\ LoopStep("create_task", ToString(started + 1))
    /\ UNCHANGED <<awaiting, gathered, loop, cog>>

\* The signal handler: asyncio.create_task(__shutdown(sig, loop)).
Signal(j) ==
    /\ task[ShutdownTask(j)] = "none"
    /\ \A k \in 1..(j - 1) : task[ShutdownTask(k)] # "none"
    /\ task' = [task EXCEPT ![ShutdownTask(j)] = "running"]
    /\ LoopStep("signal", ToString(j))
    /\ UNCHANGED <<awaiting, gathered, loop, cog, started>>

\* asyncio.all_tasks(): the tasks that have not finished.
all_tasks == {t \in TaskIds : task[t] \in {"running", "cancelling"}}

\* Faulty variant: loop.stop() follows the cancel() calls without the gather.
ShutdownCancel_NoGather(j) ==
    LET tasks == all_tasks \ {ShutdownTask(j)}
    IN  /\ task[ShutdownTask(j)] = "running"
        /\ awaiting[ShutdownTask(j)] = "start"
        /\ gathered' = [gathered EXCEPT ![ShutdownTask(j)] = tasks]
        /\ task' = [t \in TaskIds |->
                       IF t \in tasks THEN "cancelling"
                       ELSE IF t = ShutdownTask(j) THEN "done" ELSE task[t]]
        /\ awaiting' = [awaiting EXCEPT ![ShutdownTask(j)] = "gather"]
        /\ loop' = "stopped"
        /\ LoopStep("shutdown", ToString(j))
        /\ UNCHANGED <<cog, started>>

\* __shutdown up to its await: every task but the current one is
\* cancelled, then the task awaits asyncio.gather(*tasks).
ShutdownCancel(j) ==
    LET tasks == all_tasks \ {ShutdownTask(j)}
    IN  /\ task[ShutdownTask(j)] = "running"
        /\ awaiting[ShutdownTask(j)] = "start"
        /\ gathered' = [gathered EXCEPT ![ShutdownTask(j)] = tasks]
        /\ task' = [t \in TaskIds |->
                       IF t \in tasks THEN "cancelling" ELSE task[t]]
        /\ awaiting' = [awaiting EXCEPT ![ShutdownTask(j)] = "gather"]
        /\ LoopStep("shutdown", ToString(j))
        /\ UNCHANGED <<loop, cog, started>>

\* The gather has completed: loop.stop().
ShutdownStop(j) ==
    /\ task[ShutdownTask(j)] = "running"
    /\ awaiting[ShutdownTask(j)] = "gather"
    /\ \A t \in gathered[ShutdownTask(j)] : task[t] = "done"
    /\ loop' = "stopped"
    /\ task' = [task EXCEPT ![ShutdownTask(j)] = "done"]
    /\ LoopStep("stopped", ToString(j))
    /\ UNCHANGED <<awaiting, gathered, cog, started>>

\* CancelledError is raised in a cancelled task other than the monitor's,
\* and the task finishes (the list a __shutdown task awaited goes with it).
Cancelled(t) ==
    /\ t # MonitorTask(1)
    /\ task[t] = "cancelling"
    /\ task' = [task EXCEPT ![t] = "done"]
    /\ gathered' = [gathered EXCEPT ![t] = {}]
    /\ LoopStep("cancelled", t[1])
    /\ UNCHANGED <<awaiting, loop, cog, started>>

\* The monitor task is resumed: a step of run_monitor.
MonitorRuns ==
    /\ loop = "running"
    /\ task[MonitorTask(1)] = "running"
    /\ UNCHANGED <<histVars, fnVars, botVars>>

\* CancelledError is raised in the cancelled monitor task.
MonitorCancelled ==
    /\ loop = "running"
    /\ task[MonitorTask(1)] = "cancelling"
    /\ Cancel(Primary)
    /\ task' = [task EXCEPT ![MonitorTask(1)] = "done"]
    /\ UNCHANGED <<histVars, fnVars, awaiting, gathered, loop, cog, started>>

NextBot ==
    \/ \E i \in 1..MaxReady : OnReady(i)
    \/ \E i \in 1..MaxReady : AddCog(i)
    \/ \E i \in 1..MaxReady : StartMonitor(i)
    \/ \E j \in 1..MaxSignals : Signal(j)
    \/ \E j \in 1..MaxSignals : ShutdownCancel(j)
    \/ \E j \in 1..MaxSignals : ShutdownStop(j)
    \/ \E t \in TaskIds : Cancelled(t)
    \/ MonitorCancelled
    \/ Connect(Primary) /\ MonitorRuns
    \/ ConnectFail(Primary) /\ MonitorRuns
    \/ FeedFail(Primary) /\ MonitorRuns
    \/ BackoffDone(Primary) /\ MonitorRuns

SpecBot == InitBot /\ [][NextBot]_vars

(***************************************************************************)
(* SpecRetro: two monitor instances and the add command, from empty        *)
(* tables, in the runs where the feed, the database and callback answer    *)
(* every request.  The history records the criteria that were added when a *)
(* post's id was already stored.                                           *)
(***************************************************************************)
\* The history of an add command: the criterion it created, paired with
\* every post whose id was stored when it committed.
TrackLate ==
    /\ late' = late \cup
           {<<r.id, row.id>> : r \in submission_criterion' \ submission_criterion,
                               row \in processed_submission}
    /\ UNCHANGED <<notifiedPairs, evaluatedPosts, repeats, failedPairs>>

NextRetro ==
    \/ \E input \in AddInputs : Add(input) /\ TrackLate /\ UNCHANGED <<fnVars, botVars>>
    \/ \E m \in Monitors : Connect(m) /\ UNCHANGED <<histVars, fnVars, botVars>>
    \/ \E m \in Monitors, p \in PostIds : Deliver(m, p) /\ UNCHANGED <<histVars, fnVars, botVars>>
    \/ \E m \in Monitors : DedupCheck(m) /\ UNCHANGED <<histVars, fnVars, botVars>>
    \/ \E m \in Monitors : LoadCriteria(m) /\ UNCHANGED <<histVars, fnVars, botVars>>
    \/ \E m \in Monitors : NotifyOk(m) /\ UNCHANGED <<histVars, fnVars, botVars>>
    \/ \E m \in Monitors : Commit(m) /\ UNCHANGED <<histVars, fnVars, botVars>>

SpecRetro == Init /\ [][NextRetro]_vars

(***************************************************************************)
(* SpecLive: one monitor instance and the administrative commands, in the  *)
(* runs where the feed and the database answer every request and the task  *)
(* is not cancelled; callback may return or raise.  The event loop resumes *)
(* a task whose await has completed: the monitor's steps are weakly fair.  *)
(***************************************************************************)
Progress(m) ==
    \/ Connect(m)
    \/ \E p \in PostIds : Deliver(m, p)
    \/ DedupCheck(m)
    \/ LoadCriteria(m)
    \/ NotifyOk(m)
    \/ NotifyFail(m)
    \/ Commit(m)
    \/ BackoffDone(m)

LiveStep == Progress(Primary) /\ UNCHANGED <<histVars, fnVars, botVars>>

NextLive ==
    \/ \E input \in AddInputs : Add(input) /\ UNCHANGED <<histVars, fnVars, botVars>>
    \/ \E search_id \in 0..MaxId : Delete(search_id) /\ UNCHANGED <<histVars, fnVars, botVars>>
    \/ List /\ UNCHANGED <<histVars, fnVars, botVars>>
    \/ Connect(Primary) /\ UNCHANGED <<histVars, fnVars, botVars>>
    \/ \E p \in PostIds : Deliver(Primary, p) /\ UNCHANGED <<histVars, fnVars, botVars>>
    \/ DedupCheck(Primary) /\ UNCHANGED <<histVars, fnVars, botVars>>
    \/ LoadCriteria(Primary) /\ UNCHANGED <<histVars, fnVars, botVars>>
    \/ NotifyOk(Primary) /\ UNCHANGED <<histVars, fnVars, botVars>>
    \/ NotifyFail(Primary) /\ UNCHANGED <<histVars, fnVars, botVars>>
    \/ Commit(Primary) /\ UNCHANGED <<histVars, fnVars, botVars>>
    \/ BackoffDone(Primary) /\ UNCHANGED <<histVars, fnVars, botVars>>

SpecLive == Init /\ [][NextLive]_vars /\ WF_vars(LiveStep)

(***************************************************************************)
(* SpecRead: one monitor instance and the add and delete commands, with    *)
(* the statements of the criteria read.  selectinload makes the read two   *)
(* statements inside the one `await session.scalars(...)`: the select of   *)
(* the submission_criterion rows, then the select of the keyword rows      *)
(* whose criterion_id is among the ids read.  The task is suspended at     *)
(* each statement.  Nothing in the code sets the isolation of the session, *)
(* so the second statement either reads the tables as the first one did    *)
(* (the read is then the single step LoadCriteria) or reads them as they   *)
(* are when it runs (SelectCriteria, then SelectKeywords).                 *)
(***************************************************************************)
\* The first statement: the rows of the criteria, the relationship
\* `keywords` of each not yet populated.  With no row read there is no
\* second statement.
SelectCriteria(m) ==
    /\ pc[m] = "load"
    /\ submission_criterion # {}
    /\ pc' = [pc EXCEPT ![m] = "keywords"]
    /\ criteria' = [criteria EXCEPT ![m] = list_all(submission_criterion, {})]
    /\ log' = Quiet
    /\ UNCHANGED <<storeVars, seen, submission, idx, called, cancelled, opened,
                   connections, waits, dupAtCheck, session, lastCriteria>>

\* The second statement: select ... from keyword where criterion_id in
\* (the ids read); each object gets the rows found for its id.  Then the
\* loop up to the first callback.
SelectKeywords(m) ==
    /\ pc[m] = "keywords"
    /\ LET crit == [i \in 1..Len(criteria[m]) |->
                       [criteria[m][i] EXCEPT
                            !.keywords = KeywordsOf(keyword, criteria[m][i].id)]]
       IN  /\ criteria' = [criteria EXCEPT ![m] = crit]
           /\ RunLoop(m, crit, 1)
    /\ log' = Quiet
    /\ UNCHANGED <<storeVars, seen, submission, cancelled, opened, connections,
                   waits, dupAtCheck, lastCriteria>>

NextRead ==
    \/ \E input \in AddInputs : Add(input) /\ UNCHANGED <<histVars, fnVars, botVars>>
    \/ \E search_id \in 0..MaxId : Delete(search_id) /\ UNCHANGED <<histVars, fnVars, botVars>>
    \/ Connect(Primary) /\ UNCHANGED <<histVars, fnVars, botVars>>
    \/ \E p \in PostIds : Deliver(Primary, p) /\ UNCHANGED <<histVars, fnVars, botVars>>
    \/ DedupCheck(Primary) /\ UNCHANGED <<histVars, fnVars, botVars>>
    \/ LoadCriteria(Primary) /\ UNCHANGED <<histVars, fnVars, botVars>>
    \/ SelectCriteria(Primary) /\ UNCHANGED <<histVars, fnVars, botVars>>
    \/ SelectKeywords(Primary) /\ UNCHANGED <<histVars, fnVars, botVars>>
    \/ NotifyOk(Primary) /\ UNCHANGED <<histVars, fnVars, botVars>>
    \/ Commit(Primary) /\ UNCHANGED <<histVars, fnVars, botVars>>

SpecRead == Init /\ [][NextRead]_vars

(***************************************************************************)
(* Properties.                                                             *)
(***************************************************************************)
Stored(id) == \E r \in processed_submission : r.id = id

RowsIn(table, id) == {r \in table : r.id = id}

RowsOf(id) == RowsIn(processed_submission, id)

InPass(m) == pc[m] \in {"load", "keywords", "notify", "commit"}

Range(f) == {f[i] : i \in DOMAIN f}

\* C1 (as stated): each post is evaluated and acted upon exactly once: no
\* (criterion, post) pair is given to the Notifier twice and no post has its
\* criteria evaluated in two passes.
C1_ExactlyOnce == repeats = {}

\* C1 (amended): no pass evaluates or notifies for a post whose id was in
\* the Dedup Store when the pass made its dedup check, and within one pass
\* no criterion is given to the Notifier twice; a pair can be notified again
\* only by a pass whose dedup check came before the post's commit.
C1_AtMostOncePerPassAndNeverAfterCommit ==
    \A m \in Monitors :
        /\ InPass(m) => ~dupAtCheck[m]
        /\ \A i, j \in 1..Len(called[m]) : called[m][i] = called[m][j] => i = j

C1_Witness ==
    /\ "notify" \in repeats
    /\ \A p \in PostIds : Stored(p)

\* C2: when the dedup check finds the post's id in the Dedup Store, the
\* pass ends there: no criteria are loaded, nothing is evaluated, notified
\* or committed, both stores are unchanged and the monitor awaits the next
\* post.
C2_StoredPostIsSkipped ==
    [][\A m \in Monitors :
          (DedupCheck(m) /\ Stored(submission[m])) =>
              /\ pc'[m] = "stream"
              /\ submission'[m] = "none"
              /\ criteria'[m] = <<>>
              /\ called'[m] = <<>>
              /\ UNCHANGED storeVars]_vars

C2_Witness ==
    \E m \in Monitors :
        /\ log = Report("skipped", m, "p1")
        /\ pc[m] = "stream"
        /\ submission_criterion # {}

\* C3 (as stated): after the Notifier failed for a matching criterion the
\* monitor is still in the pass of that post, at the next notification or at
\* the commit.
C3_NotifierFailureKeepsPass ==
    \A m \in Monitors, p \in PostIds :
        log = Report("notifier_failed", m, p) =>
            /\ pc[m] \in {"notify", "commit"}
            /\ submission[m] = p

\* C4 (as stated): a persistence error during the dedup check, the criteria
\* read or the commit is caught in the per-post loop, and the monitor awaits
\* the next post on the same connection.
C4_PersistenceErrorCaughtInLoop ==
    \A m \in Monitors, at \in {"check", "load", "commit"} :
        log = Report("persistence_error", m, at) =>
            /\ pc[m] = "stream"
            /\ seen[m] # {}

\* C5: the Dedup Store never holds two rows with one id; a commit keeps
\* every row that was there and leaves exactly one row with the post's id,
\* also when the id was already stored (the conflict of two passes).
C5_OneRowPerId ==
    [][/\ \A p \in PostIds :
              Cardinality(RowsIn(processed_submission', p)) <= 1
       /\ \A m \in Monitors :
              Commit(m) =>
                  /\ processed_submission \subseteq processed_submission'
                  /\ Cardinality(RowsIn(processed_submission',
                                        submission[m])) = 1]_vars

C5_Witness ==
    \E m \in Monitors, p \in PostIds :
        /\ log = Report("already_in_cache", m, p)
        /\ Cardinality(RowsOf(p)) = 1

\* C6: no step removes or changes a row of the Dedup Store: a stored id
\* stays stored, with the same date_processed, across reconnects, restarts
\* and administrative commands.
C6_StoredForever ==
    [][/\ processed_submission \subseteq processed_submission'
       /\ \A p \in PostIds :
              has_processed(processed_submission, p) =>
                  has_processed(processed_submission', p)]_vars

C6_Witness ==
    /\ Stored("p1")
    /\ pc[Primary] = "connect"
    /\ ~opened[Primary]
    /\ submission_criterion = {}

\* C7: when a pass is at its commit, every criterion it loaded has been
\* evaluated and every loaded criterion that matches the post has been
\* given to the Notifier.
C7_CommitAfterEvaluation ==
    \A m \in Monitors :
        pc[m] = "commit" =>
            /\ idx[m] = Len(criteria[m]) + 1
            /\ \A i \in 1..Len(criteria[m]) :
                   check_criteria(criteria[m][i], PostOf(submission[m])) =>
                       criteria[m][i].id \in Range(called[m])

C7_Witness ==
    \E m \in Monitors :
        /\ pc[m] = "commit"
        /\ Len(called[m]) = 2

\* C8: once the task is cancelled, whatever it awaited, the monitor is
\* stopped and stays stopped: it holds no connection and no post, and opens,
\* handles and retries nothing.
C8_CancelStops ==
    \A m \in Monitors :
        cancelled[m] =>
            /\ pc[m] = "stopped"
            /\ seen[m] = {}
            /\ submission[m] = "none"

C8_Witness ==
    /\ log = Report("cancelled", Primary, "backoff")
    /\ pc[Primary] = "stopped"
    /\ Stored("p1")

\* C9: the supervisor is stopped only by cancellation; every other failure
\* puts it in the backoff wait, and a connection is opened either first
\* thing or after exactly one finished wait since the previous opening.
C9_BackoffBetweenOpenings ==
    \A m \in Monitors :
        /\ pc[m] = "stopped" => cancelled[m]
        /\ (log.m = m /\ log.kind \in {"feed_failed", "connect_failed",
                                       "notifier_failed", "persistence_error"})
               => pc[m] = "backoff"
        /\ pc[m] = "connect" => waits[m] = (IF opened[m] THEN 1 ELSE 0)
        /\ pc[m] \notin {"connect", "stopped"} => opened[m] /\ waits[m] = 0

C9_Witness ==
    /\ pc[Primary] = "connect"
    /\ opened[Primary]
    /\ waits[Primary] = 1
    /\ Stored("p2")

\* C10: the criteria a pass works on are exactly those in the Criteria
\* Store at its criteria read, each with all of its keywords, and the pass
\* gives the Notifier no criterion outside that list.
LoadedFromStore(crit) ==
    /\ {crit[i].id : i \in 1..Len(crit)} = {r.id : r \in submission_criterion}
    /\ Len(crit) = Cardinality(submission_criterion)
    /\ \A i \in 1..Len(crit) :
           /\ [id |-> crit[i].id,
               submission_type |-> crit[i].submission_type,
               min_transactions |-> crit[i].min_transactions,
               all_required |-> crit[i].all_required] \in submission_criterion
           /\ Range(crit[i].keywords) =
                  {k.content : k \in {x \in keyword : x.criterion_id = crit[i].id}}

C10_FreshCriteriaRead ==
    [][\A m \in Monitors :
          /\ (pc[m] = "load" /\ pc'[m] \in {"notify", "commit"}) =>
                 LoadedFromStore(criteria'[m])
          /\ Range(called'[m]) \subseteq
                 {criteria'[m][i].id : i \in 1..Len(criteria'[m])}]_vars

C10_Witness ==
    \E m \in Monitors :
        /\ pc[m] = "notify"
        /\ submission[m] = "p2"
        /\ lastCriteria[m] # None
        /\ lastCriteria[m] # << {criteria[m][i].id : i \in 1..Len(criteria[m])} >>

\* C11 (as stated): while a Notifier call is in flight the monitor holds no
\* open persistence session.
C11_NoSessionDuringNotification ==
    \A m \in Monitors : pc[m] = "notify" => session[m] = "none"

\* The three gates, stated on the arguments: the marker "[wtb]" or "[wts]"
\* occurs in the title, the keywords occur in it, letters compared without
\* regard to case, and the number the reputation text starts with is at
\* least the minimum.
SameLetter(a, b) == LowerChar(a) = LowerChar(b)

OccursIgnoringCase(k, t) ==
    \E i \in 0..(Len(t) - Len(k)) :
        \A j \in 1..Len(k) : SameLetter(t[i + j], k[j])

Marker(type) ==
    IF type = "WTB" THEN <<"[", "w", "t", "b", "]">>
    ELSE <<"[", "w", "t", "s", "]">>

MarkerGate == OccursIgnoringCase(Marker(kwargs.submission_type), inSubmission.title)

AllKeywords ==
    \A i \in 1..Len(kwargs.keywords) :
        OccursIgnoringCase(kwargs.keywords[i], inSubmission.title)

SomeKeyword ==
    \E i \in 1..Len(kwargs.keywords) :
        OccursIgnoringCase(kwargs.keywords[i], inSubmission.title)

\* C12: with all_required true, check_title is true exactly when the marker
\* is in the title and every keyword is a substring of it, case ignored.
C12_AllRequiredTitle ==
    (out.op = "check_title" /\ kwargs.all_required) =>
        out.value = (MarkerGate /\ AllKeywords)

C12_Witness ==
    /\ out = [op |-> "check_title", value |-> TRUE]
    /\ kwargs.all_required
    /\ kwargs.keywords = << <<"a">>, <<"B">> >>
    /\ inSubmission.title = <<"b", "[", "W", "t", "s", "]", "a">>

\* C13: with all_required false, check_title is true exactly when the marker
\* is in the title and at least one keyword is a substring of it, case
\* ignored; with the empty string as the only keyword the marker decides.
C13_AnyKeywordTitle ==
    (out.op = "check_title" /\ ~kwargs.all_required) =>
        /\ out.value = (MarkerGate /\ SomeKeyword)
        /\ kwargs.keywords = << <<>> >> => out.value = MarkerGate

C13_Witness ==
    /\ out = [op |-> "check_title", value |-> TRUE]
    /\ ~kwargs.all_required
    /\ kwargs.keywords = << <<"B">>, <<"a">> >>
    /\ inSubmission.title = <<"[", "w", "t", "s", "]", "A">>

\* __process_keywords of the criterion class in main.py: an empty list
\* becomes the list of the empty string, other keywords are lowercased.
\* The constructor of models.py does not call it.
process_keywords(initial) ==
    IF Len(initial) = 0 THEN << <<>> >>
    ELSE [i \in 1..Len(initial) |-> lower(initial[i])]

\* C14 (as stated): a criterion constructed with an empty keyword list
\* gives, for every title and both modes, the result of the criterion whose
\* only keyword is the empty string: the marker alone decides.
C14_EmptyListAsEmptyString ==
    (out.op = "check_title" /\ kwargs.keywords = <<>>) =>
        /\ out.value =
               check_title([constructed.object[1] EXCEPT
                                !.keywords = process_keywords(kwargs.keywords)],
                           inSubmission.title)
        /\ out.value = MarkerGate

\* The reputation text starts with a decimal digit, and the number its
\* leading digits spell.
StartsWithDigit(flair) ==
    /\ flair # None
    /\ flair[1] # <<>>
    /\ flair[1][1] \in Digits

RECURSIVE LeadingNumber(_, _)
LeadingNumber(text, acc) ==
    IF text = <<>> \/ Head(text) \notin Digits THEN acc
    ELSE LeadingNumber(Tail(text), 10 * acc + DigitVal(Head(text)))

\* C15: for a post whose reputation text is absent or does not start with
\* a decimal digit, check_criteria returns false (the TypeError is caught),
\* whatever the title, the keywords and the minimum are.
C15_UnparsableReputationFails ==
    (out.op = "check_criteria" /\ ~StartsWithDigit(inSubmission.author_flair_text))
        => out.value = FALSE

C15_Witness ==
    /\ out = [op |-> "check_criteria", value |-> FALSE]
    /\ inSubmission.author_flair_text = None
    /\ kwargs.min_transactions = 0
    /\ MarkerGate
    /\ AllKeywords

KeywordGate == IF kwargs.all_required THEN AllKeywords ELSE SomeKeyword

ReputationGate ==
    /\ StartsWithDigit(inSubmission.author_flair_text)
    /\ LeadingNumber(inSubmission.author_flair_text[1], 0) >= kwargs.min_transactions

\* C16: check_criteria is true exactly when the three gates pass: marker,
\* keywords, and a leading number of the reputation text that is at least
\* min_transactions (equal passes, below fails); the result is their
\* conjunction, in whatever order they are taken.
C16_ThreeGates ==
    out.op = "check_criteria" =>
        /\ out.value = (MarkerGate /\ KeywordGate /\ ReputationGate)
        /\ out.value = (ReputationGate /\ KeywordGate /\ MarkerGate)

C16_Witness ==
    /\ out = [op |-> "check_criteria", value |-> TRUE]
    /\ kwargs.min_transactions = 5
    /\ inSubmission.author_flair_text = << <<"5", "x">> >>
    /\ Len(kwargs.keywords) = 2

\* C17: the constructor raises the validation error exactly for a negative
\* min_transactions (0 is accepted and kept), arguments with a negative
\* minimum add nothing to the Criteria Store, and no stored criterion has a
\* negative minimum.
C17_NegativeMinimumRejected ==
    /\ constructed.called =>
           /\ (constructed.raised = "ValueError") = (kwargs.min_transactions < 0)
           /\ (constructed.object = <<>>) = (kwargs.min_transactions < 0)
           /\ constructed.object # <<>> =>
                  constructed.object[1].min_transactions = kwargs.min_transactions
    /\ kwargs.min_transactions < 0 => submission_criterion = {} /\ keyword = {}
    /\ \A r \in submission_criterion : r.min_transactions >= 0

C17_Witness ==
    /\ constructed.called
    /\ constructed.raised = "ValueError"
    /\ kwargs.min_transactions = -1
    /\ log = Report("rejected", "admin", "Range")

\* C18: after every step each keyword row references a criterion that
\* exists, and a delete command removes every keyword of the criterion it
\* deletes and leaves the keywords of the other criteria as they were.
C18_CascadeDelete ==
    [][/\ \A k \in keyword' :
              \E r \in submission_criterion' : r.id = k.criterion_id
       /\ \A search_id \in 0..MaxId :
              Delete(search_id) =>
                  /\ \A k \in keyword' : k.criterion_id # search_id
                  /\ {k \in keyword' : k.criterion_id # search_id} =
                         {k \in keyword : k.criterion_id # search_id}]_vars

C18_Witness ==
    /\ log = Report("deleted", "admin", "1")
    /\ \E r \in submission_criterion : r.id = 2
    /\ Cardinality({k \in keyword : k.criterion_id = 2}) = 2

\* C19: a commit that meets the duplicate-key conflict leaves the Dedup
\* Store as it was and the monitor awaiting the next post of the same
\* stream: nothing is raised to the supervisor, no backoff, no reconnect.
C19_ConflictIsAbsorbed ==
    [][\A m \in Monitors :
          (Commit(m) /\ IntegrityError(processed_submission, submission[m])) =>
              /\ processed_submission' = processed_submission
              /\ pc'[m] = "stream"
              /\ seen'[m] = seen[m]
              /\ opened'[m] = opened[m]
              /\ waits'[m] = waits[m]
              /\ log' = Report("already_in_cache", m, submission[m])]_vars

C19_Witness ==
    /\ log = Report("already_in_cache", "m2", "p2")
    /\ pc["m2"] = "stream"
    /\ seen["m2"] = {"p1", "p2"}
    /\ waits["m2"] = 0

\* C20: every step respects the ownership of the stores. A step of the
\* monitor or of its supervisor leaves the criteria and keyword tables as
\* they were; add, list and delete leave the table of processed submissions
\* as it was; the dedup check and the criteria read change no table. Hence
\* only the commit writes processed submissions and only add and delete
\* write criteria and keywords.
MonitorStep(m) ==
    \/ Connect(m) \/ ConnectFail(m) \/ FeedFail(m)
    \/ \E p \in PostIds : Deliver(m, p)
    \/ DedupCheck(m) \/ LoadCriteria(m) \/ NotifyOk(m) \/ NotifyFail(m)
    \/ Commit(m) \/ PersistenceError(m) \/ BackoffDone(m)
    \/ Cancel(m) \/ Restart(m)

AdminStep ==
    \/ \E input \in AddInputs : Add(input)
    \/ \E search_id \in 0..MaxId : Delete(search_id)
    \/ List

\* A step that changes no table satisfies every conjunct, so only the steps
\* that write a table are examined.
C20_StoreOwnership ==
    [][\/ UNCHANGED storeVars
       \/ /\ \A m \in Monitors :
                MonitorStep(m) => UNCHANGED <<submission_criterion, keyword>>
          /\ AdminStep => UNCHANGED processed_submission
          /\ \A m \in Monitors :
                (DedupCheck(m) \/ LoadCriteria(m)) => UNCHANGED storeVars
          /\ processed_submission' # processed_submission =>
                \E m \in Monitors : Commit(m)
          /\ <<submission_criterion, keyword>>' #
                 <<submission_criterion, keyword>> =>
                \/ \E input \in AddInputs : Add(input)
                \/ \E search_id \in 0..MaxId : Delete(search_id)]_vars

C20_Witness ==
    /\ log = Report("created", "admin", "2")
    /\ Stored("p1")
    /\ pc[Primary] = "load"
    /\ submission[Primary] = "p2"

\* C21 (as stated): once a callback of a monitor has raised, that monitor
\* never again gives callback the pair that raised, nor a pair it had given
\* callback earlier in that pass, on this connection or a later one.
C21_FailedPairNeverRetried ==
    [][\A m \in Monitors :
          NotifiedNow(m) => PairNow(m) \notin failedPairs[m]]_vars

\* C22 (as stated): while the feed and the stores answer and the monitor is
\* not cancelled, every post a stream has yielded is eventually in the
\* Dedup Store, and so is every post that follows it in the feed, whatever
\* callback does.
Follows(q, p) ==
    \E i, j \in 1..Len(StreamOrder) :
        i <= j /\ StreamOrder[i] = p /\ StreamOrder[j] = q

C22_NoPostBlocksTheStream ==
    \A p, q \in PostIds :
        Follows(q, p) => ((p \in seen[Primary]) ~> Stored(q))

\* C23: a pass that reaches the end of its criteria loop goes on to the
\* commit, whether the list was empty, held no match or held matches, and
\* the commit leaves the post's id in the Dedup Store.
NoMatchFrom(crit, post, from) ==
    \A i \in from..Len(crit) : ~check_criteria(crit[i], post)

C23_CommittedWhateverTheMatches ==
    [][\A m \in Monitors :
          /\ (LoadCriteria(m) /\ NoMatchFrom(criteria'[m], PostOf(submission[m]), 1)) =>
                 /\ pc'[m] = "commit"
                 /\ submission'[m] = submission[m]
                 /\ called'[m] = <<>>
          /\ (NotifyOk(m) /\ NoMatchFrom(criteria[m], PostOf(submission[m]), idx[m] + 1)) =>
                 /\ pc'[m] = "commit"
                 /\ submission'[m] = submission[m]
          /\ Commit(m) => \E r \in processed_submission' : r.id = submission[m]]_vars

C23_Witness ==
    /\ log = Report("stored", Primary, "p2")
    /\ lastCriteria[Primary] = << {1} >>
    /\ RowsOf("p1") # {}
    /\ pc[Primary] = "stream"

\* C24: at every await of a pass the criteria given to callback so far are
\* exactly the criteria that match the post among those the loop has
\* visited, once each and in the order of the list (which is the order of
\* the store); at the commit the loop has visited the whole list, so a
\* criterion that fails a gate stops nothing after it and is never notified.
RECURSIVE Matching(_, _)
Matching(crit, post) ==
    IF crit = <<>> THEN <<>>
    ELSE (IF check_criteria(Head(crit), post) THEN <<Head(crit).id>> ELSE <<>>)
             \o Matching(Tail(crit), post)

Visited(m) ==
    SubSeq(criteria[m], 1,
           IF pc[m] = "notify" THEN idx[m] ELSE Len(criteria[m]))

C24_EachCriterionOnceInOrder ==
    \A m \in Monitors :
        pc[m] \in {"notify", "commit"} =>
            /\ called[m] = Matching(Visited(m), PostOf(submission[m]))
            /\ \A i, j \in 1..Len(criteria[m]) :
                   i < j => criteria[m][i].id < criteria[m][j].id

C24_Witness ==
    /\ pc[Primary] = "commit"
    /\ submission[Primary] = "p1"
    /\ Len(criteria[Primary]) = 2
    /\ criteria[Primary][1].min_transactions = 9
    /\ called[Primary] = <<2>>

\* C25: a __shutdown task cancels every unfinished task but itself and
\* stops the loop only when all of them have finished: once the loop is
\* stopped no task is left cancelled and unfinished, every task has
\* finished except a later __shutdown task that never ran, and the monitor
\* task, if it was started, has left run_monitor; and the monitor opens no
\* connection once a __shutdown task has made its cancel() calls.
ShutdownBegan == \E j \in 1..MaxSignals : awaiting[ShutdownTask(j)] = "gather"

Unfinished(t) == task[t] \in {"running", "cancelling"}

C25_StopOnlyAfterAllFinished ==
    [][/\ \A j \in 1..MaxSignals :
             ShutdownCancel(j) =>
                 \A t \in TaskIds \ {ShutdownTask(j)} :
                     Unfinished(t) =>
                         task'[t] = "cancelling" /\ t \in gathered'[ShutdownTask(j)]
       /\ loop' = "stopped" =>
             /\ \A t \in TaskIds : task'[t] # "cancelling"
             /\ \A t \in TaskIds :
                    Unfinished(t)' =>
                        \E j \in 1..MaxSignals :
                            t = ShutdownTask(j) /\ awaiting'[t] = "start"
             /\ task'[MonitorTask(1)] = "done" => pc'[Primary] = "stopped"
       /\ (Connect(Primary) \/ ConnectFail(Primary)) =>
             ~ShutdownBegan /\ ~ShutdownBegan']_vars

C25_Witness ==
    /\ loop = "stopped"
    /\ task[MonitorTask(1)] = "done"
    /\ task[BotTask] = "done"
    /\ task[ShutdownTask(1)] = "done"
    /\ task[ShutdownTask(2)] = "done"
    /\ cancelled[Primary]
    /\ opened[Primary]

\* C26: a delete command for an id that no criterion has answers "not
\* found" and leaves the criteria and the keywords as they were; for an id
\* that a criterion has it answers "deleted" and removes that criterion and
\* no other.
C26_DeleteExactlyTheCriterion ==
    [][\A search_id \in 0..MaxId :
          Delete(search_id) =>
              IF \E r \in submission_criterion : r.id = search_id
              THEN /\ log' = Report("deleted", "admin", ToString(search_id))
                   /\ \A r \in submission_criterion' : r.id # search_id
                   /\ submission_criterion' \subseteq submission_criterion
                   /\ Cardinality(submission_criterion') =
                          Cardinality(submission_criterion) - 1
              ELSE /\ log' = Report("not_found", "admin", ToString(search_id))
                   /\ UNCHANGED <<submission_criterion, keyword>>]_vars

C26_Witness ==
    /\ log = Report("not_found", "admin", "1")
    /\ \E r \in submission_criterion : r.id = 2
    /\ \A r \in submission_criterion : r.id = 2
    /\ Cardinality(keyword) = 2

\* C27: whatever the number of on_ready events, create_task is called for
\* the monitor at most once, so at most one monitor task exists and at most
\* one is unfinished.
C27_AtMostOneMonitorTask ==
    /\ started <= 1
    /\ Cardinality({k \in 1..MaxReady : task[MonitorTask(k)] # "none"}) <= 1
    /\ Cardinality({k \in 1..MaxReady : Unfinished(MonitorTask(k))}) <= 1

C27_Witness ==
    /\ log = Report("ClientException", "loop", "2")
    /\ task[ReadyTask(2)] = "done"
    /\ started = 1
    /\ task[MonitorTask(1)] = "running"
    /\ pc[Primary] = "stream"

\* C28 (as stated): a criterion added after a post's id was stored is never
\* given to callback with that post.
C28_NeverRetroactive ==
    [][\A m \in Monitors :
          NotifiedNow(m) => PairNow(m) \notin late]_vars

\* C28 (amended): a criterion added after a post's id was stored is given
\* to callback with that post only by a pass whose dedup check did not find
\* the id, because it came before the commit; a pass that finds the id,
\* as every pass over a redelivered post does, ends at the check.
C28_RetroactiveOnlyAcrossTheCheck ==
    [][\A m \in Monitors :
          /\ (NotifiedNow(m) /\ PairNow(m) \in late) => ~dupAtCheck[m]
          /\ (DedupCheck(m) /\ Stored(submission[m])) =>
                 pc'[m] = "stream" /\ called'[m] = <<>>]_vars

C28_Witness ==
    /\ <<1, "p1">> \in late
    /\ log = Report("skipped", "m2", "p1")
    /\ pc["m2"] = "stream"
    /\ called["m2"] = <<>>

\* C29: the criteria of a pass are those of its criteria read.  A step that
\* changes the criteria table while the monitor awaits callback leaves the
\* list, the loop position and the calls made as they were; a pass that goes
\* on after callback keeps the list, and the criterion it gives to callback
\* next is one of that list, further down, whether or not the table still
\* has it.
C29_CriteriaFixedAtTheRead ==
    [][\A m \in Monitors :
          /\ (pc[m] = "notify" /\ submission_criterion' # submission_criterion) =>
                 /\ pc'[m] = "notify"
                 /\ criteria'[m] = criteria[m]
                 /\ idx'[m] = idx[m]
                 /\ called'[m] = called[m]
          /\ (pc[m] = "notify" /\ pc'[m] \in {"notify", "commit"}) =>
                 criteria'[m] = criteria[m]
          /\ (pc[m] = "notify" /\ NotifiedNow(m)) =>
                 /\ idx'[m] \in (idx[m] + 1)..Len(criteria[m])
                 /\ criteria[m][idx'[m]].id = PairNow(m)[1]]_vars

C29_Witness ==
    /\ pc[Primary] = "notify"
    /\ called[Primary] = <<1, 2>>
    /\ log = Quiet
    /\ {r.id : r \in submission_criterion} = {1}

\* C30: a supervisor holds at most one open connection to the feed, and
\* none while it is about to open one, while it sleeps after a failure, and
\* after its task was cancelled.
C30_AtMostOneConnection ==
    \A m \in Monitors :
        /\ connections[m] \in {0, 1}
        /\ pc[m] \in {"connect", "backoff", "stopped"} => connections[m] = 0
        /\ InWith(m) => connections[m] = 1

C30_Witness ==
    /\ pc[Primary] = "backoff"
    /\ log = Report("notifier_failed", Primary, "p1")
    /\ connections[Primary] = 0
    /\ processed_submission = {}

\* The keywords given to the add command that made the criterion: the
\* inputs of AddInputs differ in the fields the criterion's row keeps.
GivenKeywords(c) ==
    (CHOOSE input \in AddInputs :
         /\ input.submission_type = c.submission_type
         /\ input.all_required = c.all_required
         /\ input.min_transactions = c.min_transactions).keywords

\* C31: every criterion of the list a pass evaluates has all the keywords it
\* was created with, whatever add and delete commands ran during the
\* criteria read.
C31_LoadedWithAllKeywords ==
    \A m \in Monitors :
        pc[m] \in {"notify", "commit"} =>
            \A i \in 1..Len(criteria[m]) :
                criteria[m][i].keywords = GivenKeywords(criteria[m][i])

=============================================================================
